---- MODULE Spec2Model ----
(***************************************************************************)
(* State-machine model of the graph view of konnektr-io/graph-explorer:    *)
(* the GraphViewer React component (graph build effect, relationship       *)
(* auto-fetch effect, handleNodeDoubleClick expansion) together with the   *)
(* asynchronous calls it leaves in flight.                                 *)
(*                                                                         *)
(* Twin ids are the integers 1..3 (standing for "t1".."t3"); their order   *)
(* is the order String.prototype.sort gives the ids.                       *)
(***************************************************************************)
EXTENDS Integers, Sequences, FiniteSets

(***************************************************************************)
(* Bounds of the exploration.                                              *)
(***************************************************************************)
\* Events (prop changes, layout changes, double clicks) in one run.
MaxEvents == 4

\* Queries executed in one run of the query store.
MaxQueries == 4

\* Rows of a result set handed to the table views (the scalar scenario
\* of three rows is an input besides).
MaxRows == 2

\* Local connections kept in the connection store.
MaxConnections == 2

\* Frames of processModel the engine's call stack takes.
MaxCallStack == 4

(***************************************************************************)
(* The backend the external collaborators read.                            *)
(***************************************************************************)
R1 == [id |-> "r1", src |-> 1, tgt |-> 2]
R2 == [id |-> "r2", src |-> 2, tgt |-> 3]
R3 == [id |-> "r3", src |-> 1, tgt |-> 2]

BackendRels == <<R1, R2, R3>>

RelIds == {"r1", "r2", "r3"}

TwinIds == {1, 2, 3}

LayoutTypes == {"circular", "force", "random"}

\* The (twins, relationships) props a parent hands to the viewer.
ResultSets ==
  { [twins |-> <<1, 3>>,   rels |-> <<>>],
    [twins |-> <<1, 2, 3>>, rels |-> <<>>],
    [twins |-> <<1, 2>>,   rels |-> <<>>],
    [twins |-> <<2, 1>>,   rels |-> <<R1, R3, R1>>],
    [twins |-> <<2>>,      rels |-> <<R2>>],
    [twins |-> <<1, 1, 2>>, rels |-> <<R1>>] }

\* autoFetchRelationships prop: its default value.
autoFetchRelationships == TRUE

(***************************************************************************)
(* Sequence helpers.                                                       *)
(***************************************************************************)
Range(s) == { s[i] : i \in 1..Len(s) }

RECURSIVE Insert(_, _)
Insert(x, s) ==
  IF s = <<>> THEN <<x>>
  ELSE IF x <= Head(s) THEN <<x>> \o s
  ELSE <<Head(s)>> \o Insert(x, Tail(s))

RECURSIVE SortIds(_)
SortIds(s) == IF s = <<>> THEN <<>> ELSE Insert(Head(s), SortIds(Tail(s)))

\* twins.map(t => t.$dtId).sort().join(","): the sorted list of ids,
\* duplicates kept.
twinIdsOf(tw) == SortIds(tw)

(***************************************************************************)
(* graphology Graph (new Graph(): mixed, not multi).  A graph is a record  *)
(* of a node list and an edge list; lists, so that a duplicate would show. *)
(* The x / y attributes of a node are kept as the way they were set:       *)
(* "initial" (the Math.random() pair given to addNode), "layout" (assigned *)
(* by a layout strategy) or "manual" (set by a drag).                      *)
(***************************************************************************)
EmptyGraph == [nodes |-> <<>>, edges |-> <<>>]

NodeIds(g) == { g.nodes[i].id : i \in 1..Len(g.nodes) }

EdgeIds(g) == { g.edges[i].id : i \in 1..Len(g.edges) }

hasNode(g, n) == n \in NodeIds(g)

hasEdge(g, e) == e \in EdgeIds(g)

CountNode(g, n) == Cardinality({ i \in 1..Len(g.nodes) : g.nodes[i].id = n })

CountEdge(g, e) == Cardinality({ i \in 1..Len(g.edges) : g.edges[i].id = e })

Linked(g, s, t) == \E i \in 1..Len(g.edges) : g.edges[i].src = s /\ g.edges[i].tgt = t

\* Graph.addNode throws when the node key exists.
addNodeThrows(g, n) == hasNode(g, n)

addNodeAlways(g, n, by, gen) ==
  [g EXCEPT !.nodes = Append(@, [id |-> n, by |-> by, gen |-> gen, pos |-> "initial"])]

addNode(g, n, by, gen) ==
  IF addNodeThrows(g, n) THEN g
  ELSE [g EXCEPT !.nodes = Append(@, [id |-> n, by |-> by, gen |-> gen, pos |-> "initial"])]

\* Graph.addEdgeWithKey throws when an endpoint is missing, when the key
\* exists, and (the graph not being a multi graph) when an edge already
\* links source to target.
addEdgeThrows(g, rel) ==
  \/ ~hasNode(g, rel.src)
  \/ ~hasNode(g, rel.tgt)
  \/ hasEdge(g, rel.id)
  \/ Linked(g, rel.src, rel.tgt)

addEdgeAlways(g, rel, by, gen) ==
  [g EXCEPT !.edges = Append(@, [id |-> rel.id, src |-> rel.src, tgt |-> rel.tgt,
                                 by |-> by, gen |-> gen])]

\* addEdgeWithKey inside try/catch: a throw leaves the graph as it was.
addEdgeWithKey(g, rel, by, gen) ==
  IF addEdgeThrows(g, rel) THEN g
  ELSE [g EXCEPT !.edges = Append(@, [id |-> rel.id, src |-> rel.src, tgt |-> rel.tgt,
                                      by |-> by, gen |-> gen])]

\* circular.assign / forceAtlas2.assign / random.assign followed by
\* graph.forEachNode(setNodeAttribute x, y): every node is repositioned.
assignLayout(g) ==
  [g EXCEPT !.nodes = [i \in 1..Len(g.nodes) |-> [g.nodes[i] EXCEPT !.pos = "layout"]]]

\* graph.setNodeAttribute(draggedNode, "x" / "y", pos) of mousemovebody.
setNodePosition(g, n) ==
  [g EXCEPT !.nodes = [i \in 1..Len(g.nodes) |->
      IF g.nodes[i].id = n THEN [g.nodes[i] EXCEPT !.pos = "manual"] ELSE g.nodes[i]]]

(***************************************************************************)
(* The graph build effect: nodes, then edges.                              *)
(***************************************************************************)
\* twins.forEach(addNode): stops at the first throw, which leaves the
\* effect (nothing catches it).
RECURSIVE BuildNodes(_, _, _)
BuildNodes(g, tw, gen) ==
  IF tw = <<>> THEN [g |-> g, threw |-> FALSE]
  ELSE IF addNodeThrows(g, Head(tw)) THEN [g |-> g, threw |-> TRUE]
  ELSE BuildNodes(addNode(g, Head(tw), "build", gen), Tail(tw), gen)

\* relationships.forEach: both endpoints must be nodes, then a guarded
\* addEdgeWithKey.
RECURSIVE BuildEdges(_, _, _)
BuildEdges(g, rels, gen) ==
  IF rels = <<>> THEN g
  ELSE LET rel == Head(rels)
           g1 == IF hasNode(g, rel.src) /\ hasNode(g, rel.tgt)
                 THEN addEdgeWithKey(g, rel, "build", gen)
                 ELSE g
       IN BuildEdges(g1, Tail(rels), gen)

\* "Apply initial layout when graph is created": only for a non-empty
\* twin list.
InitialLayout(g, tw) == IF Len(tw) > 0 THEN assignLayout(g) ELSE g

(***************************************************************************)
(* The relationship merge of the auto-fetch and of handleNodeDoubleClick.  *)
(***************************************************************************)
MergeRelUnchecked(g, rel, by, gen) == addEdgeAlways(g, rel, by, gen)

MergeRel(g, rel, by, gen) ==
  IF hasNode(g, rel.src) /\ hasNode(g, rel.tgt) /\ ~hasEdge(g, rel.id)
  THEN addEdgeWithKey(g, rel, by, gen)
  ELSE g

RECURSIVE MergeRelsThenLayout(_, _, _, _)
MergeRelsThenLayout(g, rels, by, gen) ==
  IF rels = <<>> THEN assignLayout(g)
  ELSE MergeRelsThenLayout(MergeRel(g, Head(rels), by, gen), Tail(rels), by, gen)

RECURSIVE MergeRels(_, _, _, _)
MergeRels(g, rels, by, gen) ==
  IF rels = <<>> THEN g
  ELSE MergeRels(MergeRel(g, Head(rels), by, gen), Tail(rels), by, gen)

(***************************************************************************)
(* External collaborators.                                                 *)
(***************************************************************************)
\* queryRelationships(nodeId, "all"): the relationships touching nodeId.
QueryRelationships(n) ==
  SelectSeq(BackendRels, LAMBDA r : r.src = n \/ r.tgt = n)

\* The combined auto-fetch query, after the filter that keeps the
\* relationships with both endpoints in the twin set of the closure.
AutoFetchRelationships(twinSet) ==
  SelectSeq(BackendRels, LAMBDA r : r.src \in twinSet /\ r.tgt \in twinSet)

\* connectedTwinIds: a Set filled in relationship order, source before
\* target, the expanded node left out.
RECURSIVE AddDistinct(_, _)
AddDistinct(s, xs) ==
  IF xs = <<>> THEN s
  ELSE AddDistinct(IF Head(xs) \in Range(s) THEN s ELSE Append(s, Head(xs)), Tail(xs))

RECURSIVE Endpoints(_)
Endpoints(rels) ==
  IF rels = <<>> THEN <<>>
  ELSE <<Head(rels).src, Head(rels).tgt>> \o Endpoints(Tail(rels))

connectedTwinIdsAll(rels, n) == SelectSeq(<<1, 2, 3>>, LAMBDA t : t # n)

connectedTwinIds(rels, n) ==
  AddDistinct(<<>>, SelectSeq(Endpoints(rels), LAMBDA t : t # n))

\* The for-loop over connectedTwinIds runs on without suspending while
\* graph.hasNode(twinId) holds.
RECURSIVE SkipPresent(_, _)
SkipPresent(g, q) ==
  IF q = <<>> THEN <<>>
  ELSE IF hasNode(g, Head(q)) THEN SkipPresent(g, Tail(q))
  ELSE q

(***************************************************************************)
(* State.                                                                  *)
(***************************************************************************)
VARIABLES
  mounted,          \* the component has rendered and run its effects once
  crashed,          \* an effect threw: React has torn the component down
  twins,            \* twins prop (list of twin ids)
  relationships,    \* relationships prop (list of relationship payloads)
  layoutType,       \* layoutType state
  graph,            \* graphRef.current
  sigma,            \* sigmaRef.current is set (its event handlers are live)
  expandedNodes,    \* expandedNodes state
  handlerExpanded,  \* expandedNodes as closed over by the registered
                    \* doubleClickNode handler
  hasFetched,       \* hasFetchedRelationshipsRef.current
  isLoading,        \* isLoadingRelationships state
  hasManuallyPositionedNodes,  \* hasManuallyPositionedNodes state
  autoPending,      \* auto-fetch calls waiting for their response
  expansions,       \* handleNodeDoubleClick calls waiting for a response
  resultGen,        \* history: number of result sets (distinct twinIds) so far
  builtRels,        \* history: relationships prop the graph was built from
  events,           \* history: number of events so far
  relQueries,       \* history: relationship queries per node in this result set
  autoIssued,       \* history: auto-fetch queries issued in this result set
  remerged,         \* history: relationship ids merged again into this graph
  expDone,          \* history: nodes whose expansion finished on this graph
  autoDone,         \* history: an auto-fetch merged into this graph
  undisturbed,      \* history: no fetch failed and no graph was replaced
                    \* under a pending fetch since this graph was built
  concurrent,       \* history: two expansions were in flight together
  lastDone,         \* history: the expansion that finished in the last step
  userPlaced,       \* history: nodes the user dragged in this result set
                    \* since the last reset of the layout
  queryResults,     \* queryStore.queryResults (the displayed result set)
  queryError,       \* queryStore.queryError
  queryPending,     \* the executeQuery call waiting for its response
  toasts,           \* the notifications toast.error has shown
  queries,          \* history: number of queries executed
  lastGood,         \* history: result set of the last query that succeeded
  results,          \* results prop of the table views
  identityListed,   \* getEntityProperties lists the identity fields
  flat,             \* what FlatColumnsView rendered last
  flatPrev,         \* history: what FlatColumnsView rendered before that
  simple,           \* what SimpleTableView rendered last
  grouped,          \* what GroupedColumnsView rendered last
  connections,      \* connectionStore.connections (the local connections)
  ktrlPlaneConnections,  \* connectionStore.ktrlPlaneConnections
  currentConnectionId,   \* connectionStore.currentConnectionId
  isAuthenticated,  \* useAuth0().isAuthenticated
  open,             \* ConnectionSelector: the connection dialog is open
  editMode,         \* ConnectionSelector: editMode state
  editingConnectionId,   \* ConnectionSelector: editingConnectionId state
  selection,        \* inspectorStore: an item is selected
  lastOp,           \* history: the handler that ran in the last step
  models,           \* modelsStore.models (the loaded models)
  modelId,          \* getModelRelationshipDefinitions: its argument
  callStack,        \* the processModel calls that have not returned
  relationshipDefs, \* the relationships array of the call
  processedNames,   \* the processedNames set of the call
  threw,            \* the call ended with an exception
  returned          \* the call returned its array

vars == <<mounted, crashed, twins, relationships, layoutType, graph,
          sigma, expandedNodes, handlerExpanded, hasFetched, isLoading,
          autoPending, expansions, resultGen, builtRels, events,
          relQueries, autoIssued, remerged, expDone, autoDone,
          undisturbed, concurrent, lastDone,
          hasManuallyPositionedNodes, userPlaced,
          queryResults, queryError, queryPending, toasts, queries, lastGood,
          results, identityListed, flat, flatPrev, simple, grouped,
          connections, ktrlPlaneConnections, currentConnectionId,
          isAuthenticated, open, editMode, editingConnectionId, selection,
          lastOp, models, modelId, callStack, relationshipDefs,
          processedNames, threw, returned>>

\* The state of the graph viewer, of the query store and its toaster.
viewerVars == <<mounted, crashed, twins, relationships, layoutType, graph,
                sigma, expandedNodes, handlerExpanded, hasFetched, isLoading,
                autoPending, expansions, resultGen, builtRels, events,
                relQueries, autoIssued, remerged, expDone, autoDone,
                undisturbed, concurrent, lastDone,
                hasManuallyPositionedNodes, userPlaced>>

storeVars == <<queryResults, queryError, queryPending, toasts, queries, lastGood>>

tableVars == <<results, identityListed, flat, flatPrev, simple, grouped>>

\* The connection store, the connection selector and the inspector store.
connVars == <<connections, ktrlPlaneConnections, currentConnectionId,
              isAuthenticated, open, editMode, editingConnectionId,
              selection, lastOp>>

\* A call of getModelRelationshipDefinitions.
dtdlVars == <<modelId, callStack, relationshipDefs, processedNames, threw, returned>>

\* A table view that has not rendered.
NotRendered == [done |-> FALSE, expanded |-> {}, header |-> <<>>, rows |-> <<>>]

\* No table view is mounted.
TableIdle ==
  /\ results = <<>>
  /\ identityListed = TRUE
  /\ flat = NotRendered
  /\ flatPrev = NotRendered
  /\ simple = NotRendered
  /\ grouped = NotRendered

NoDone == [rels |-> <<>>, got |-> {}, lost |-> {}, node |-> 0]

\* The relationship ids of rels that are already edges of the graph at the
\* moment the build offers them to it.
RECURSIVE BuildRepeats(_, _, _)
BuildRepeats(g, rels, gen) ==
  IF rels = <<>> THEN {}
  ELSE (IF hasEdge(g, Head(rels).id) THEN {Head(rels).id} ELSE {})
       \cup BuildRepeats(BuildEdges(g, <<Head(rels)>>, gen), Tail(rels), gen)

\* The same for a merge by the auto-fetch or by an expansion.
RECURSIVE MergeRepeats(_, _, _)
MergeRepeats(g, rels, gen) ==
  IF rels = <<>> THEN {}
  ELSE (IF hasEdge(g, Head(rels).id) THEN {Head(rels).id} ELSE {})
       \cup MergeRepeats(MergeRel(g, Head(rels), "merge", gen), Tail(rels), gen)

\* queryResults: null.
NoResults == [query |-> "null"]

\* The query store before the first query; null is written "null".
StoreInit ==
  /\ queryResults = NoResults
  /\ queryError = "null"
  /\ queryPending = "null"
  /\ toasts = <<>>
  /\ queries = 0
  /\ lastGood = NoResults

ViewerInit ==
  /\ mounted = FALSE
  /\ crashed = FALSE
  /\ twins = <<>>
  /\ relationships = <<>>
  /\ layoutType = "force"
  /\ graph = EmptyGraph
  /\ sigma = FALSE
  /\ expandedNodes = {}
  /\ handlerExpanded = {}
  /\ hasFetched = FALSE
  /\ isLoading = FALSE
  /\ autoPending = {}
  /\ expansions = {}
  /\ resultGen = 0
  /\ builtRels = <<>>
  /\ events = 0
  /\ relQueries = [n \in TwinIds |-> 0]
  /\ autoIssued = 0
  /\ remerged = {}
  /\ expDone = {}
  /\ autoDone = FALSE
  /\ undisturbed = TRUE
  /\ concurrent = FALSE
  /\ lastDone = NoDone
  /\ hasManuallyPositionedNodes = FALSE
  /\ userPlaced = {}

\* No connection is configured and nobody is signed in; null is written
\* as the empty id.
NoConnection == <<>>

NoOp == [op |-> "none", id |-> NoConnection, found |-> FALSE]

ConnInit ==
  /\ connections = <<>>
  /\ ktrlPlaneConnections = <<>>
  /\ currentConnectionId = NoConnection
  /\ isAuthenticated = FALSE
  /\ open = FALSE
  /\ editMode = FALSE
  /\ editingConnectionId = NoConnection
  /\ selection = FALSE
  /\ lastOp = NoOp

\* No call of getModelRelationshipDefinitions is under way.
DtdlIdle ==
  /\ modelId = "none"
  /\ callStack = <<>>
  /\ relationshipDefs = <<>>
  /\ processedNames = {}
  /\ threw = FALSE
  /\ returned = FALSE

Init == ViewerInit /\ StoreInit /\ TableIdle /\ ConnInit /\ models = <<>> /\ DtdlIdle

Quiescent == autoPending = {} /\ expansions = {}

(***************************************************************************)
(* The parent renders the viewer with a new twins / relationships pair.    *)
(* Effects run in declaration order: the auto-fetch effect (its dependency *)
(* twins changed), then the graph build effect when twinIds changed.  The  *)
(* build ends with the initial layout and setHasManuallyPositionedNodes    *)
(* (false); the layout effect that this state change triggers calls        *)
(* resetLayout, which assigns the same layout once more.                   *)
(* connection: whether getCurrentConnection() returns a connection.        *)
(***************************************************************************)
SetProps(rs, connection) ==
  /\ ~crashed
  /\ events < MaxEvents
  /\ LET changed == ~mounted \/ twinIdsOf(rs.twins) # twinIdsOf(twins)
         gen == IF changed THEN resultGen + 1 ELSE resultGen
         canFetch == /\ autoFetchRelationships
                     /\ Len(rs.twins) # 0
                     /\ ~isLoading
                     /\ ~hasFetched
         issue == canFetch /\ Len(rs.rels) = 0 /\ connection
         fetchedAfter == IF canFetch /\ Len(rs.rels) # 0 THEN TRUE ELSE hasFetched
         nb == BuildNodes(EmptyGraph, rs.twins, gen)
     IN /\ events' = events + 1
        /\ mounted' = TRUE
        /\ twins' = rs.twins
        /\ relationships' = rs.rels
        /\ resultGen' = gen
        /\ isLoading' = (isLoading \/ issue)
        /\ autoPending' = IF issue
                          THEN autoPending \cup {[twinSet |-> Range(rs.twins), gen |-> gen]}
                          ELSE autoPending
        /\ autoIssued' = (IF changed THEN 0 ELSE autoIssued) + (IF issue THEN 1 ELSE 0)
        /\ IF changed
           THEN /\ expandedNodes' = {}
                /\ handlerExpanded' = expandedNodes
                /\ hasFetched' = FALSE
                /\ crashed' = nb.threw
                /\ sigma' = ~nb.threw
                /\ graph' = IF nb.threw THEN nb.g
                            ELSE InitialLayout(BuildEdges(nb.g, rs.rels, gen), rs.twins)
                /\ hasManuallyPositionedNodes' =
                     IF nb.threw \/ Len(rs.twins) = 0
                     THEN hasManuallyPositionedNodes ELSE FALSE
                /\ userPlaced' = {}
                /\ builtRels' = rs.rels
                /\ relQueries' = [n \in TwinIds |-> 0]
                /\ remerged' = IF nb.threw THEN {} ELSE BuildRepeats(nb.g, rs.rels, gen)
                /\ expDone' = {}
                /\ autoDone' = FALSE
                /\ undisturbed' = Quiescent
                /\ concurrent' = FALSE
           ELSE /\ hasFetched' = fetchedAfter
                /\ UNCHANGED <<expandedNodes, handlerExpanded, crashed, sigma, graph,
                               builtRels, relQueries, remerged, expDone, autoDone,
                               undisturbed, concurrent,
                               hasManuallyPositionedNodes, userPlaced>>
        /\ lastDone' = NoDone
        /\ UNCHANGED <<layoutType, expansions>>

(***************************************************************************)
(* The user picks another layout type.  layoutType is a dependency of the  *)
(* graph build effect, which therefore runs again on the current props.    *)
(* The cleanup of the build effect has set graphRef and sigmaRef to null   *)
(* before the layout effect runs, so that effect does nothing here.        *)
(***************************************************************************)
SetLayoutType(lt) ==
  /\ mounted
  /\ ~crashed
  /\ lt # layoutType
  /\ events < MaxEvents
  /\ LET nb == BuildNodes(EmptyGraph, twins, resultGen)
     IN /\ layoutType' = lt
        /\ events' = events + 1
        /\ expandedNodes' = {}
        /\ handlerExpanded' = expandedNodes
        /\ hasFetched' = FALSE
        /\ crashed' = nb.threw
        /\ sigma' = ~nb.threw
        /\ graph' = IF nb.threw THEN nb.g
                    ELSE InitialLayout(BuildEdges(nb.g, relationships, resultGen), twins)
        /\ hasManuallyPositionedNodes' =
             IF nb.threw \/ Len(twins) = 0 THEN hasManuallyPositionedNodes ELSE FALSE
        /\ builtRels' = relationships
        /\ remerged' = IF nb.threw THEN {} ELSE BuildRepeats(nb.g, relationships, resultGen)
        /\ expDone' = {}
        /\ autoDone' = FALSE
        /\ undisturbed' = Quiescent
        /\ concurrent' = FALSE
        /\ lastDone' = NoDone
        /\ UNCHANGED <<mounted, twins, relationships, isLoading,
                       autoPending, expansions, resultGen,
                       relQueries, autoIssued, userPlaced>>

(***************************************************************************)
(* handleNodeDoubleClick, up to its first await.  The handler sigma calls  *)
(* is the one the build effect registered; a node in the expandedNodes it  *)
(* closed over makes the call return at once (no step).                    *)
(***************************************************************************)
DoubleClick(n) ==
  /\ mounted
  /\ ~crashed
  /\ sigma
  /\ events < MaxEvents
  /\ hasNode(graph, n)
  /\ n \notin handlerExpanded
  /\ events' = events + 1
  /\ expandedNodes' = expandedNodes \cup {n}
  /\ expansions' = expansions \cup
       {[k |-> events + 1, node |-> n, gen |-> resultGen, stage |-> "rels",
         queue |-> <<>>, got |-> {}, lost |-> {}]}
  /\ relQueries' = [relQueries EXCEPT ![n] = @ + 1]
  /\ concurrent' = (concurrent \/ expansions # {})
  /\ lastDone' = NoDone
  /\ UNCHANGED <<hasManuallyPositionedNodes, userPlaced,
                 mounted, crashed, twins, relationships, layoutType,
                 graph, sigma, handlerExpanded, hasFetched, isLoading, autoPending,
                 resultGen, builtRels, autoIssued, remerged,
                 expDone, autoDone, undisturbed>>

\* handleNodeDoubleClick from an await on: the loop over connectedTwinIds
\* up to the next getTwinById, or to the end, where the relationships are
\* merged.  g is the graph after the step so far, q the ids still to visit,
\* got and lost the twins whose fetch succeeded and failed in this call.
Continue(p, g, q, got, lost) ==
  LET rest == SkipPresent(g, q)
      rels == QueryRelationships(p.node)
  IN IF rest = <<>>
     THEN /\ graph' = MergeRels(g, rels, "expand", p.gen)
          /\ expansions' = expansions \ {p}
          /\ expDone' = expDone \cup {p.node}
          /\ remerged' = remerged \cup MergeRepeats(g, rels, p.gen)
          /\ lastDone' = [rels |-> rels, got |-> got, lost |-> lost, node |-> p.node]
     ELSE /\ graph' = g
          /\ expansions' = (expansions \ {p}) \cup
               {[p EXCEPT !.stage = "twin", !.queue = rest, !.got = got, !.lost = lost]}
          /\ lastDone' = NoDone
          /\ UNCHANGED <<expDone, remerged>>

\* queryRelationships resolves.
RelsArrive(p) ==
  /\ p.stage = "rels"
  /\ Continue(p, graph, connectedTwinIds(QueryRelationships(p.node), p.node), {}, {})
  /\ UNCHANGED <<hasManuallyPositionedNodes, userPlaced,
                 mounted, crashed, twins, relationships, layoutType,
                 sigma, expandedNodes, handlerExpanded, hasFetched, isLoading,
                 autoPending, resultGen, builtRels, events,
                 relQueries, autoIssued, autoDone, undisturbed, concurrent>>

\* queryRelationships rejects: the outer catch ends the call.
RelsFail(p) ==
  /\ p.stage = "rels"
  /\ expansions' = expansions \ {p}
  /\ undisturbed' = FALSE
  /\ lastDone' = NoDone
  /\ UNCHANGED <<hasManuallyPositionedNodes, userPlaced,
                 mounted, crashed, twins, relationships, layoutType,
                 graph, sigma, expandedNodes, handlerExpanded, hasFetched, isLoading,
                 autoPending, resultGen, builtRels, events,
                 relQueries, autoIssued, remerged, expDone, autoDone, concurrent>>

\* getTwinById resolves: addNode (a throw is caught), then the loop goes on.
TwinArrives(p) ==
  /\ p.stage = "twin"
  /\ Continue(p, addNode(graph, Head(p.queue), "expand", p.gen), Tail(p.queue),
              p.got \cup {Head(p.queue)}, p.lost)
  /\ UNCHANGED <<hasManuallyPositionedNodes, userPlaced,
                 mounted, crashed, twins, relationships, layoutType,
                 sigma, expandedNodes, handlerExpanded, hasFetched, isLoading,
                 autoPending, resultGen, builtRels, events,
                 relQueries, autoIssued, autoDone, undisturbed, concurrent>>

\* getTwinById rejects: the inner catch skips this twin, the loop goes on.
TwinFails(p) ==
  /\ p.stage = "twin"
  /\ Continue(p, graph, Tail(p.queue), p.got, p.lost \cup {Head(p.queue)})
  /\ undisturbed' = FALSE
  /\ UNCHANGED <<hasManuallyPositionedNodes, userPlaced,
                 mounted, crashed, twins, relationships, layoutType,
                 sigma, expandedNodes, handlerExpanded, hasFetched, isLoading,
                 autoPending, resultGen, builtRels, events,
                 relQueries, autoIssued, autoDone, concurrent>>

(***************************************************************************)
(* The user drags node n: downNode, mousemovebody, mouseup.  The layout    *)
(* effect runs on the change of hasManuallyPositionedNodes and, the flag   *)
(* being set, does nothing.                                                *)
(***************************************************************************)
DragNode(n) ==
  /\ mounted
  /\ ~crashed
  /\ sigma
  /\ events < MaxEvents
  /\ hasNode(graph, n)
  /\ events' = events + 1
  /\ graph' = setNodePosition(graph, n)
  /\ hasManuallyPositionedNodes' = TRUE
  /\ userPlaced' = userPlaced \cup {n}
  /\ lastDone' = NoDone
  /\ UNCHANGED <<mounted, crashed, twins, relationships, layoutType, sigma,
                 expandedNodes, handlerExpanded, hasFetched, isLoading,
                 autoPending, expansions, resultGen, builtRels, relQueries,
                 autoIssued, remerged, expDone, autoDone, undisturbed, concurrent>>

(***************************************************************************)
(* The Reset button: resetLayout.  The layout effect, run again when the   *)
(* flag changes to false, calls resetLayout once more.                     *)
(***************************************************************************)
resetLayout ==
  /\ mounted
  /\ ~crashed
  /\ sigma
  /\ events < MaxEvents
  /\ events' = events + 1
  /\ hasManuallyPositionedNodes' = FALSE
  /\ graph' = assignLayout(graph)
  /\ userPlaced' = {}
  /\ lastDone' = NoDone
  /\ UNCHANGED <<mounted, crashed, twins, relationships, layoutType, sigma,
                 expandedNodes, handlerExpanded, hasFetched, isLoading,
                 autoPending, expansions, resultGen, builtRels, relQueries,
                 autoIssued, remerged, expDone, autoDone, undisturbed, concurrent>>

(***************************************************************************)
(* fetchRelationships of the auto-fetch effect, from its await on.         *)
(***************************************************************************)
AutoFetchArrives(f) ==
  LET rels == AutoFetchRelationships(f.twinSet)
  IN /\ autoPending' = autoPending \ {f}
     /\ graph' = IF Len(rels) > 0 THEN MergeRels(graph, rels, "auto", f.gen) ELSE graph
     /\ remerged' = remerged \cup MergeRepeats(graph, rels, f.gen)
     /\ hasFetched' = TRUE
     /\ isLoading' = FALSE
     /\ autoDone' = TRUE
     /\ lastDone' = NoDone
     /\ UNCHANGED <<hasManuallyPositionedNodes, userPlaced,
                 mounted, crashed, twins, relationships, layoutType,
                    sigma, expandedNodes, handlerExpanded, expansions, resultGen,
                    builtRels, events, relQueries,
                    autoIssued, expDone, undisturbed, concurrent>>

\* The query rejects: logged; hasFetchedRelationshipsRef stays false.
AutoFetchFails(f) ==
  /\ autoPending' = autoPending \ {f}
  /\ isLoading' = FALSE
  /\ undisturbed' = FALSE
  /\ lastDone' = NoDone
  /\ UNCHANGED <<hasManuallyPositionedNodes, userPlaced,
                 mounted, crashed, twins, relationships, layoutType,
                 graph, sigma, expandedNodes, handlerExpanded, hasFetched,
                 expansions, resultGen, builtRels, events,
                 relQueries, autoIssued, remerged, expDone, autoDone, concurrent>>

Next ==
  \/ (\E rs \in ResultSets, connection \in BOOLEAN : SetProps(rs, connection))
       /\ UNCHANGED <<storeVars, tableVars, connVars, models, dtdlVars>>
  \/ (\E lt \in LayoutTypes : SetLayoutType(lt)) /\ UNCHANGED <<storeVars, tableVars, connVars, models, dtdlVars>>
  \/ (\E n \in TwinIds : DoubleClick(n)) /\ UNCHANGED <<storeVars, tableVars, connVars, models, dtdlVars>>
  \/ (\E p \in expansions : RelsArrive(p)) /\ UNCHANGED <<storeVars, tableVars, connVars, models, dtdlVars>>
  \/ (\E p \in expansions : RelsFail(p)) /\ UNCHANGED <<storeVars, tableVars, connVars, models, dtdlVars>>
  \/ (\E p \in expansions : TwinArrives(p)) /\ UNCHANGED <<storeVars, tableVars, connVars, models, dtdlVars>>
  \/ (\E p \in expansions : TwinFails(p)) /\ UNCHANGED <<storeVars, tableVars, connVars, models, dtdlVars>>
  \/ (\E f \in autoPending : AutoFetchArrives(f)) /\ UNCHANGED <<storeVars, tableVars, connVars, models, dtdlVars>>
  \/ (\E f \in autoPending : AutoFetchFails(f)) /\ UNCHANGED <<storeVars, tableVars, connVars, models, dtdlVars>>
  \/ (\E n \in TwinIds : DragNode(n)) /\ UNCHANGED <<storeVars, tableVars, connVars, models, dtdlVars>>
  \/ resetLayout /\ UNCHANGED <<storeVars, tableVars, connVars, models, dtdlVars>>

Spec == Init /\ [][Next]_vars

(***************************************************************************)
(* The viewer with a current connection available at every render, and     *)
(* with every request it has in flight answered in the end.  Nothing in    *)
(* the component schedules a render: the parent's renders and the user's   *)
(* events carry no fairness.                                               *)
(***************************************************************************)
Responses ==
  \/ \E p \in expansions : RelsArrive(p) \/ RelsFail(p) \/ TwinArrives(p) \/ TwinFails(p)
  \/ \E f \in autoPending : AutoFetchArrives(f) \/ AutoFetchFails(f)

viewerRest == <<storeVars, tableVars, connVars, models, dtdlVars>>

ConnectedNext ==
  \/ (\E rs \in ResultSets : SetProps(rs, TRUE)) /\ UNCHANGED viewerRest
  \/ (\E lt \in LayoutTypes : SetLayoutType(lt)) /\ UNCHANGED viewerRest
  \/ (\E n \in TwinIds : DoubleClick(n)) /\ UNCHANGED viewerRest
  \/ (\E p \in expansions : RelsArrive(p)) /\ UNCHANGED viewerRest
  \/ (\E p \in expansions : RelsFail(p)) /\ UNCHANGED viewerRest
  \/ (\E p \in expansions : TwinArrives(p)) /\ UNCHANGED viewerRest
  \/ (\E p \in expansions : TwinFails(p)) /\ UNCHANGED viewerRest
  \/ (\E f \in autoPending : AutoFetchArrives(f)) /\ UNCHANGED viewerRest
  \/ (\E f \in autoPending : AutoFetchFails(f)) /\ UNCHANGED viewerRest
  \/ (\E n \in TwinIds : DragNode(n)) /\ UNCHANGED viewerRest
  \/ resetLayout /\ UNCHANGED viewerRest

ConnectedSpec ==
  Init /\ [][ConnectedNext]_vars /\ WF_vars(Responses /\ UNCHANGED viewerRest)

(***************************************************************************)
(* The query store and GlobalErrorToaster.  The store is used through      *)
(* executeQuery, queryError and clearQueryResults; executeQuery is taken   *)
(* from its contract: it resolves to a result set, or fails with a         *)
(* network / auth / syntax error that the store keeps in queryError.       *)
(***************************************************************************)
QueryTexts == {"q1", "q2", "q3"}

QueryErrors == {"network", "auth", "syntax"}

\* The result set the backend answers a query with.
ResultOf(q) == [query |-> q]

\* executeQuery(queryText), up to its await.
executeQuery(q) ==
  /\ queryPending = "null"
  /\ queries < MaxQueries
  /\ queries' = queries + 1
  /\ queryPending' = q
  /\ UNCHANGED <<queryResults, queryError, toasts, lastGood>>

\* The query resolves: its rows become the displayed result set.
QuerySucceeds ==
  /\ queryPending # "null"
  /\ queryResults' = ResultOf(queryPending)
  /\ lastGood' = ResultOf(queryPending)
  /\ queryError' = "null"
  /\ queryPending' = "null"
  /\ UNCHANGED <<toasts, queries>>

\* The query rejects: the store records the error.
QueryFails(e) ==
  /\ queryPending # "null"
  /\ queryError' = e
  /\ queryPending' = "null"
  /\ UNCHANGED <<queryResults, toasts, queries, lastGood>>

\* clearQueryResults: the store drops its result set, and with it the error
\* (GlobalErrorToaster uses it as the clearer of the error; the connection
\* store calls it to clear the data of the previous connection).
clearQueryResults ==
  /\ queryResults' = NoResults
  /\ queryError' = "null"

\* GlobalErrorToaster, the effect on queryError: toast.error, then the
\* clearer it selected from the store.
ShowQueryError ==
  /\ queryError # "null"
  /\ toasts' = Append(toasts, queryError)
  /\ clearQueryResults
  /\ UNCHANGED <<queryPending, queries, lastGood>>

StoreNext ==
  \/ (\E q \in QueryTexts : executeQuery(q)) /\ UNCHANGED <<viewerVars, tableVars, connVars, models, dtdlVars>>
  \/ QuerySucceeds /\ UNCHANGED <<viewerVars, tableVars, connVars, models, dtdlVars>>
  \/ (\E e \in QueryErrors : QueryFails(e)) /\ UNCHANGED <<viewerVars, tableVars, connVars, models, dtdlVars>>
  \/ ShowQueryError /\ UNCHANGED <<viewerVars, tableVars, connVars, models, dtdlVars>>

StoreSpec == Init /\ [][StoreNext]_vars

(***************************************************************************)
(* dtdlHelpers.getModelRelationshipDefinitions over the loaded models of   *)
(* the models store.  A loaded model is a record: its id, whether its      *)
(* model field is set, and of the DTDL interface the extends field and the *)
(* contents.  The call is followed frame by frame: callStack holds the     *)
(* processModel calls that have not returned; the engine throws a          *)
(* RangeError when the stack would grow beyond MaxCallStack frames.        *)
(***************************************************************************)
\* extends: absent, one id, or an array of ids.
NoExtends == [present |-> FALSE, isArray |-> FALSE, items |-> <<>>]

ExtendsOne(id) == [present |-> TRUE, isArray |-> FALSE, items |-> <<id>>]

ExtendsMany(ids) == [present |-> TRUE, isArray |-> TRUE, items |-> ids]

\* A content: its "@type" (a string, or an array of strings), name, target.
Relationship(name, target) ==
  [typeIsArray |-> FALSE, type |-> <<"Relationship">>, name |-> name, target |-> target]

ExtendedRelationship(name, target) ==
  [typeIsArray |-> TRUE, type |-> <<"Relationship", "Custom">>, name |-> name,
   target |-> target]

Property(name) ==
  [typeIsArray |-> FALSE, type |-> <<"Property">>, name |-> name, target |-> "none"]

Model(id, extends, contents) ==
  [id |-> id, hasModel |-> TRUE, extends |-> extends, contents |-> contents]

\* A model whose definition has not been loaded.
Unloaded(id) ==
  [id |-> id, hasModel |-> FALSE, extends |-> NoExtends, contents |-> <<>>]

ModelIds == {"A", "B", "C"}

\* The sets of loaded models the call is checked on.
ModelSets ==
  { \* B extends A; both define contains
    << Model("A", NoExtends, <<Relationship("contains", "X"), Property("name")>>),
       Model("B", ExtendsOne("A"),
             <<Relationship("contains", "Y"), ExtendedRelationship("feeds", "X")>>) >>,
    \* C extends A and B, which both define r
    << Model("A", NoExtends, <<Relationship("r", "X")>>),
       Model("B", NoExtends, <<Relationship("r", "Y"), Relationship("s", "Y")>>),
       Model("C", ExtendsMany(<<"A", "B">>), <<Property("name")>>) >>,
    \* a chain C -> B -> A
    << Model("A", NoExtends, <<Relationship("r", "X")>>),
       Model("B", ExtendsOne("A"), <<Relationship("s", "X")>>),
       Model("C", ExtendsOne("B"), <<Relationship("r", "Y")>>) >>,
    \* a base that is not loaded, and one without a definition
    << Model("A", ExtendsOne("Z"), <<Relationship("r", "X")>>),
       Unloaded("B"),
       Model("C", ExtendsOne("B"), <<Relationship("s", "X")>>) >>,
    \* a model that extends itself
    << Model("A", ExtendsOne("A"), <<Relationship("r", "X")>>) >>,
    \* A and B extend each other
    << Model("A", ExtendsOne("B"), <<Relationship("r", "X")>>),
       Model("B", ExtendsMany(<<"A">>), <<Relationship("r", "Y")>>) >>,
    \* a cycle A -> B -> C -> A next to a base of its own
    << Model("A", ExtendsMany(<<"B">>), <<Relationship("r", "X")>>),
       Model("B", ExtendsMany(<<"D", "C">>), <<Relationship("s", "X")>>),
       Model("C", ExtendsOne("A"), <<Relationship("t", "X")>>),
       Model("D", NoExtends, <<Relationship("u", "X")>>) >> }

isLoaded(ms, id) == \E i \in 1..Len(ms) : ms[i].id = id

\* models.find((m) => m.id === id): the first match.
findModel(ms, id) ==
  ms[CHOOSE i \in 1..Len(ms) : ms[i].id = id /\ \A j \in 1..(i - 1) : ms[j].id # id]

\* contentType === "Relationship" || (Array.isArray(contentType) &&
\* contentType.includes("Relationship"))
isRelationshipContent(content) ==
  IF content.typeIsArray THEN "Relationship" \in Range(content.type)
  ELSE content.type = <<"Relationship">>

\* Array.isArray(extends) ? extends : [extends]
extendsList(extends) == extends.items

\* contents.forEach: a relationship whose name has not been processed is
\* pushed.  acc: the relationships and the processed names so far.
RECURSIVE processContents(_, _)
processContents(contents, acc) ==
  IF contents = <<>> THEN acc
  ELSE LET content == Head(contents)
           next == IF isRelationshipContent(content) /\ content.name \notin acc.names
                   THEN [defs |-> Append(acc.defs, [name |-> content.name,
                                                    target |-> content.target]),
                         names |-> acc.names \cup {content.name}]
                   ELSE acc
       IN processContents(Tail(contents), next)

Frame(id) == [model |-> id, phase |-> "contents", ext |-> 1]

\* A call on top of the stack, or the RangeError of the engine.
Push(stack, id) ==
  IF Len(stack) >= MaxCallStack
  THEN /\ threw' = TRUE
       /\ callStack' = <<>>
       /\ returned' = FALSE
  ELSE /\ callStack' = Append(stack, Frame(id))
       /\ UNCHANGED <<threw, returned>>

\* The call on top of the stack returns; the outermost return ends
\* getModelRelationshipDefinitions.
Pop ==
  /\ callStack' = SubSeq(callStack, 1, Len(callStack) - 1)
  /\ returned' = (Len(callStack) = 1)
  /\ UNCHANGED threw

\* getModelRelationshipDefinitions(modelId) up to processModel(modelId).
getModelRelationshipDefinitions ==
  /\ callStack = <<>> /\ ~returned /\ ~threw
  /\ IF ~isLoaded(models, modelId) \/ ~findModel(models, modelId).hasModel
     THEN returned' = TRUE /\ UNCHANGED <<callStack, threw>>
     ELSE Push(callStack, modelId)
  /\ UNCHANGED <<models, modelId, relationshipDefs, processedNames>>

\* processModel, from its start to the end of contents.forEach.
processModelContents ==
  /\ callStack # <<>>
  /\ LET top == callStack[Len(callStack)]
     IN /\ top.phase = "contents"
        /\ IF ~isLoaded(models, top.model) \/ ~findModel(models, top.model).hasModel
           THEN Pop /\ UNCHANGED <<relationshipDefs, processedNames>>
           ELSE LET acc == processContents(findModel(models, top.model).contents,
                                           [defs |-> relationshipDefs,
                                            names |-> processedNames])
                IN /\ relationshipDefs' = acc.defs
                   /\ processedNames' = acc.names
                   /\ callStack' = [callStack EXCEPT ![Len(callStack)].phase = "extends"]
                   /\ UNCHANGED <<threw, returned>>
  /\ UNCHANGED <<models, modelId>>

\* processModel, one round of extendsList.forEach: processModel(extId), or
\* the return after the last one.
processModelExtends ==
  /\ callStack # <<>>
  /\ LET top == callStack[Len(callStack)]
         list == extendsList(findModel(models, top.model).extends)
     IN /\ top.phase = "extends"
        /\ IF top.ext > Len(list)
           THEN Pop
           ELSE Push([callStack EXCEPT ![Len(callStack)].ext = top.ext + 1],
                     list[top.ext])
  /\ UNCHANGED <<models, modelId, relationshipDefs, processedNames>>

DtdlInit ==
  /\ ViewerInit
  /\ StoreInit
  /\ TableIdle
  /\ ConnInit
  /\ models \in ModelSets
  /\ modelId \in ModelIds
  /\ callStack = <<>>
  /\ relationshipDefs = <<>>
  /\ processedNames = {}
  /\ threw = FALSE
  /\ returned = FALSE

dtdlRest == <<viewerVars, storeVars, tableVars, connVars>>

DtdlNext ==
  \/ getModelRelationshipDefinitions /\ UNCHANGED dtdlRest
  \/ processModelContents /\ UNCHANGED dtdlRest
  \/ processModelExtends /\ UNCHANGED dtdlRest

DtdlSpec == DtdlInit /\ [][DtdlNext]_vars

(***************************************************************************)
(* The connection store (useConnectionStore), the ConnectionSelector that  *)
(* drives it and the KtrlPlane resources effect of GraphHeader.  Text (a   *)
(* name, an id) is a sequence of characters; the literal prefix            *)
(* "ktrlplane-" is one token.  The awaits of setCurrentConnection are on   *)
(* module imports and resolve before the next user event, so a call is one *)
(* step.                                                                   *)
(***************************************************************************)
\* String.prototype.toLowerCase.
toLowerCase(s) ==
  [i \in 1..Len(s) |-> IF s[i] = "A" THEN "a" ELSE IF s[i] = "B" THEN "b" ELSE s[i]]

Whitespace == {" "}

RECURSIVE trimStart(_)
trimStart(s) ==
  IF s # <<>> /\ Head(s) \in Whitespace THEN trimStart(Tail(s)) ELSE s

\* s.replace(/\s+/g, "-"): every run of whitespace becomes one hyphen.
RECURSIVE replaceWhitespace(_)
replaceWhitespace(s) ==
  IF s = <<>> THEN <<>>
  ELSE IF Head(s) \in Whitespace THEN <<"-">> \o replaceWhitespace(trimStart(s))
  ELSE <<Head(s)>> \o replaceWhitespace(Tail(s))

\* s.trim() is the empty string.
blank(s) == trimStart(s) = <<>>

\* id: form.name.toLowerCase().replace(/\s+/g, "-")
connectionIdOf(name) == replaceWhitespace(toLowerCase(name))

\* The names typed into the connection form.
FormNames ==
  { <<"A">>, <<"a">>, <<"a", " ", " ", "B">>, <<"a", "-", "b">>, <<" ">>,
    <<"ktrlplane-", "r", "1">> }

\* The host and the authentication fields typed into the form.
FormAuth ==
  { [adtHost |-> <<"h">>, authProvider |-> "none",  clientId |-> <<>>, tenantId |-> <<>>,
     domain |-> <<>>, audience |-> <<>>],
    [adtHost |-> <<>>,    authProvider |-> "none",  clientId |-> <<>>, tenantId |-> <<>>,
     domain |-> <<>>, audience |-> <<>>],
    [adtHost |-> <<"h">>, authProvider |-> "msal",  clientId |-> <<"c">>, tenantId |-> <<"t">>,
     domain |-> <<>>, audience |-> <<>>],
    [adtHost |-> <<"h">>, authProvider |-> "msal",  clientId |-> <<"c">>, tenantId |-> <<>>,
     domain |-> <<>>, audience |-> <<>>],
    [adtHost |-> <<"h">>, authProvider |-> "auth0", clientId |-> <<"c">>, tenantId |-> <<>>,
     domain |-> <<"d">>, audience |-> <<>>] }

\* validateConnectionAuth: the error message, "null" for none.
validateConnectionAuth(form) ==
  IF form.authProvider = "none" THEN "null"
  ELSE IF form.authProvider = "msal" THEN
    (IF form.clientId = <<>> THEN "MSAL requires a Client ID"
     ELSE IF form.tenantId = <<>> THEN "MSAL requires a Tenant ID"
     ELSE "null")
  ELSE
    (IF form.clientId = <<>> THEN "Auth0 requires a Client ID"
     ELSE IF form.domain = <<>> THEN "Auth0 requires a Domain"
     ELSE IF form.audience = <<>> THEN "Auth0 requires an Audience"
     ELSE "null")

\* The resources KtrlPlane answers with.
Res1 == [resource_id |-> <<"r", "1">>, name |-> <<"G", "1">>]

Res2 == [resource_id |-> <<"r", "2">>, name |-> <<"G", "2">>]

ResourceLists == { <<>>, <<Res1>>, <<Res2, Res1>> }

KtrlPlaneId(resource) == <<"ktrlplane-">> \o resource.resource_id

\* The ids a caller may hand to setCurrentConnection.
CandidateIds ==
  { connectionIdOf(n) : n \in { m \in FormNames : ~blank(m) } }
  \cup { KtrlPlaneId(Res1), KtrlPlaneId(Res2) }

\* The models and the query results a connection in use has loaded.
DemoModels == << Model("A", NoExtends, <<Relationship("contains", "X")>>) >>

\* The state of the connection store.
State ==
  [connections |-> connections,
   ktrlPlaneConnections |-> ktrlPlaneConnections,
   currentConnectionId |-> currentConnectionId]

Commit(state) ==
  /\ connections' = state.connections
  /\ ktrlPlaneConnections' = state.ktrlPlaneConnections
  /\ currentConnectionId' = state.currentConnectionId

addConnection(state, conn) ==
  [state EXCEPT !.connections = Append(@, conn)]

removeConnectionEverywhere(state, id) ==
  [state EXCEPT !.connections = SelectSeq(@, LAMBDA c : c.id # id),
                !.ktrlPlaneConnections = SelectSeq(@, LAMBDA c : c.id # id)]

\* state.connections[0] is read from the state before the removal.
removeConnection(state, id) ==
  [state EXCEPT
     !.connections = SelectSeq(@, LAMBDA c : c.id # id),
     !.currentConnectionId =
        IF @ = id
        THEN (IF state.connections # <<>> THEN state.connections[1].id
              ELSE NoConnection)
        ELSE @]

\* { ...c, ...updates }: the updates of the form carry id and name.
updateConnection(state, id, updates) ==
  [state EXCEPT
     !.connections =
        [i \in 1..Len(@) |->
           IF @[i].id = id
           THEN [@[i] EXCEPT !.id = updates.id, !.name = updates.name]
           ELSE @[i]]]

setKtrlPlaneConnectionsKept(state, resources) ==
  IF resources = <<>> THEN state
  ELSE [state EXCEPT
          !.ktrlPlaneConnections =
             [i \in 1..Len(resources) |->
                [id |-> KtrlPlaneId(resources[i]), name |-> resources[i].name,
                 isKtrlPlaneManaged |-> TRUE]]]

setKtrlPlaneConnections(state, resources) ==
  [state EXCEPT
     !.ktrlPlaneConnections =
        [i \in 1..Len(resources) |->
           [id |-> KtrlPlaneId(resources[i]), name |-> resources[i].name,
            isKtrlPlaneManaged |-> TRUE]]]

\* KtrlPlane connections first, then local connections.
getAllConnections(state) == state.ktrlPlaneConnections \o state.connections

exists(conns, id) == \E i \in 1..Len(conns) : conns[i].id = id

\* conns.find(c => c.id === id): the first match; only used when one exists.
find(conns, id) == conns[CHOOSE i \in 1..Len(conns) :
                           /\ conns[i].id = id
                           /\ \A j \in 1..(i - 1) : conns[j].id # id]

\* setCurrentConnection, the store's part.
setCurrentConnection(state, id) ==
  IF exists(getAllConnections(state), id)
  THEN [state EXCEPT !.currentConnectionId = id]
  ELSE state

\* setCurrentConnection, the other stores: clearQueryResults, clearModels
\* and clearSelection when the connection is found.
clearPreviousConnectionData(state, id) ==
  IF exists(getAllConnections(state), id)
  THEN clearQueryResults /\ models' = <<>> /\ selection' = FALSE
  ELSE UNCHANGED <<queryResults, queryError, models, selection>>

uiVars == <<open, editMode, editingConnectionId>>

\* The Select of the connection selector (or any other caller):
\* setCurrentConnection(id).
SelectConnection(id) ==
  /\ ~open
  /\ Commit(setCurrentConnection(State, id))
  /\ clearPreviousConnectionData(State, id)
  /\ lastOp' = [op |-> "setCurrentConnection", id |-> id,
                found |-> exists(getAllConnections(State), id)]
  /\ UNCHANGED <<uiVars, isAuthenticated>>

\* ConnectionSelector: the connection the selector shows as current (the
\* local list is searched first).
currentConnectionExists ==
  exists(connections, currentConnectionId) \/ exists(ktrlPlaneConnections, currentConnectionId)

currentConnection ==
  IF exists(connections, currentConnectionId)
  THEN find(connections, currentConnectionId)
  ELSE find(ktrlPlaneConnections, currentConnectionId)

canDeleteCurrent ==
  /\ currentConnectionExists
  /\ ~currentConnection.isKtrlPlaneManaged
  /\ currentConnection.id # <<"localhost">>

canEditCurrent ==
  /\ currentConnectionExists
  /\ ~currentConnection.isKtrlPlaneManaged
  /\ currentConnection.id # <<"localhost">>

\* The Edit menu item (shown when canEditCurrent) and handleEdit.
handleEdit ==
  /\ ~open
  /\ canEditCurrent
  /\ currentConnectionExists /\ ~currentConnection.isKtrlPlaneManaged
  /\ editMode' = TRUE
  /\ editingConnectionId' = currentConnection.id
  /\ open' = TRUE
  /\ lastOp' = [op |-> "handleEdit", id |-> currentConnection.id, found |-> TRUE]
  /\ UNCHANGED <<connections, ktrlPlaneConnections, currentConnectionId,
                 isAuthenticated, queryResults, queryError, models, selection>>

\* The dialog is opened to add a connection.
OpenDialog ==
  /\ ~open
  /\ open' = TRUE
  /\ lastOp' = [op |-> "openDialog", id |-> NoConnection, found |-> FALSE]
  /\ UNCHANGED <<connections, ktrlPlaneConnections, currentConnectionId,
                 editMode, editingConnectionId,
                 isAuthenticated, queryResults, queryError, models, selection>>

\* handleDialogOpenChange(false).
handleDialogOpenChange ==
  /\ open
  /\ open' = FALSE
  /\ editMode' = FALSE
  /\ editingConnectionId' = NoConnection
  /\ lastOp' = [op |-> "handleDialogOpenChange", id |-> NoConnection, found |-> FALSE]
  /\ UNCHANGED <<connections, ktrlPlaneConnections, currentConnectionId,
                 isAuthenticated, queryResults, queryError, models, selection>>

\* handleAdd: the Save / Add button of the form.
handleAdd(name, form) ==
  LET newConnection == [id |-> connectionIdOf(name), name |-> name,
                        isKtrlPlaneManaged |-> FALSE]
      rejected == blank(name) \/ blank(form.adtHost)
                    \/ validateConnectionAuth(form) # "null"
      editing == editMode /\ editingConnectionId # NoConnection
      added == addConnection(State, newConnection)
  IN /\ open
     /\ (rejected \/ editing \/ Len(connections) < MaxConnections)
     /\ lastOp' = [op |-> IF rejected THEN "rejected"
                          ELSE IF editing THEN "updateConnection"
                          ELSE "addConnection",
                   id |-> newConnection.id, found |-> ~rejected]
     /\ IF rejected
        THEN UNCHANGED <<connections, ktrlPlaneConnections, currentConnectionId,
                         uiVars, queryResults, queryError, models, selection>>
        ELSE /\ IF editing
                THEN /\ Commit(updateConnection(State, editingConnectionId, newConnection))
                     /\ UNCHANGED <<queryResults, queryError, models, selection>>
                ELSE /\ Commit(setCurrentConnection(added, newConnection.id))
                     /\ clearPreviousConnectionData(added, newConnection.id)
             /\ editMode' = FALSE
             /\ editingConnectionId' = NoConnection
             /\ open' = FALSE
     /\ UNCHANGED isAuthenticated

\* The Delete menu item (shown when canDeleteCurrent), confirmed:
\* handleDeleteConfirm.
handleDeleteConfirm ==
  /\ ~open
  /\ currentConnectionExists /\ canDeleteCurrent
  /\ Commit(removeConnection(State, currentConnection.id))
  /\ lastOp' = [op |-> "removeConnection", id |-> currentConnection.id, found |-> TRUE]
  /\ UNCHANGED <<uiVars, isAuthenticated, queryResults, queryError, models, selection>>

\* ConnectionSelector.handleRefresh from the answer of fetchGraphResources
\* on (an empty list also stands for the paths that call
\* setKtrlPlaneConnections([])): the list is replaced, and the first
\* resource is selected when no valid connection is current.
handleRefresh(resources) ==
  LET listed == setKtrlPlaneConnections(State, resources)
      select == /\ resources # <<>>
                /\ (currentConnectionId = NoConnection
                    \/ ~exists(getAllConnections(listed), currentConnectionId))
      first == KtrlPlaneId(resources[1])
  IN /\ isAuthenticated
     /\ IF select
        THEN /\ Commit(setCurrentConnection(listed, first))
             /\ clearPreviousConnectionData(listed, first)
        ELSE /\ Commit(listed)
             /\ UNCHANGED <<queryResults, queryError, models, selection>>
     /\ lastOp' = [op |-> "handleRefresh", id |-> NoConnection, found |-> select]
     /\ UNCHANGED <<uiVars, isAuthenticated>>

\* GraphHeader.loadKtrlPlaneResources from the answer on.
loadKtrlPlaneResources(resources) ==
  /\ isAuthenticated
  /\ Commit(setKtrlPlaneConnections(State, resources))
  /\ lastOp' = [op |-> "loadKtrlPlaneResources", id |-> NoConnection, found |-> FALSE]
  /\ UNCHANGED <<uiVars, isAuthenticated, queryResults, queryError, models, selection>>

\* The user signs in.
SignIn ==
  /\ ~isAuthenticated
  /\ ~open
  /\ isAuthenticated' = TRUE
  /\ lastOp' = [op |-> "signIn", id |-> NoConnection, found |-> FALSE]
  /\ UNCHANGED <<connections, ktrlPlaneConnections, currentConnectionId, uiVars,
                 queryResults, queryError, models, selection>>

\* handleLogout: isAuthenticated turns false and the KtrlPlane resources
\* effect of GraphHeader calls setKtrlPlaneConnections([]).
handleLogout ==
  /\ isAuthenticated
  /\ ~open
  /\ isAuthenticated' = FALSE
  /\ Commit(setKtrlPlaneConnections(State, <<>>))
  /\ lastOp' = [op |-> "handleLogout", id |-> NoConnection,
                found |-> ktrlPlaneConnections # <<>>]
  /\ UNCHANGED <<uiVars, queryResults, queryError, models, selection>>

\* The current connection is used: a query is run, its models are loaded
\* and a twin is selected in the inspector.
UseConnection ==
  /\ exists(getAllConnections(State), currentConnectionId)
  /\ queryResults' = ResultOf("q1")
  /\ models' = DemoModels
  /\ selection' = TRUE
  /\ lastOp' = [op |-> "use", id |-> currentConnectionId, found |-> TRUE]
  /\ UNCHANGED <<connections, ktrlPlaneConnections, currentConnectionId, uiVars,
                 isAuthenticated, queryError>>

connRest == <<viewerVars, tableVars, dtdlVars, queryPending, toasts, queries, lastGood>>

ConnNext ==
  \/ (\E id \in CandidateIds : SelectConnection(id)) /\ UNCHANGED connRest
  \/ handleEdit /\ UNCHANGED connRest
  \/ OpenDialog /\ UNCHANGED connRest
  \/ handleDialogOpenChange /\ UNCHANGED connRest
  \/ (\E name \in FormNames, form \in FormAuth : handleAdd(name, form)) /\ UNCHANGED connRest
  \/ handleDeleteConfirm /\ UNCHANGED connRest
  \/ (\E resources \in ResourceLists : handleRefresh(resources)) /\ UNCHANGED connRest
  \/ (\E resources \in ResourceLists : loadKtrlPlaneResources(resources)) /\ UNCHANGED connRest
  \/ SignIn /\ UNCHANGED connRest
  \/ handleLogout /\ UNCHANGED connRest
  \/ UseConnection /\ UNCHANGED connRest

ConnSpec == Init /\ [][ConnNext]_vars

(***************************************************************************)
(* JSON values.  A value is a record: t its type, n a number (or 1 / 0 for *)
(* a boolean), s a string, kv the members of an object in insertion order  *)
(* (for an array: its items under the index keys).  Text is a sequence of  *)
(* tokens: a punctuation mark, a digit, a keyword or the content of one    *)
(* string.                                                                 *)
(***************************************************************************)
Num(n) == [t |-> "number", n |-> n, s |-> "", kv |-> <<>>]

Str(s) == [t |-> "string", n |-> 0, s |-> s, kv |-> <<>>]

Bool(b) == [t |-> "boolean", n |-> IF b THEN 1 ELSE 0, s |-> "", kv |-> <<>>]

Null == [t |-> "null", n |-> 0, s |-> "", kv |-> <<>>]

Undefined == [t |-> "undefined", n |-> 0, s |-> "", kv |-> <<>>]

\* Object.prototype.constructor, what a plain object inherits under the
\* key "constructor".
ObjectConstructor == [t |-> "function", n |-> 0, s |-> "Object", kv |-> <<>>]

P(k, v) == [k |-> k, v |-> v]

Obj(kv) == [t |-> "object", n |-> 0, s |-> "", kv |-> kv]

IndexKeys == <<"0", "1">>

Arr(items) ==
  [t |-> "array", n |-> 0, s |-> "",
   kv |-> [i \in 1..Len(items) |-> P(IndexKeys[i], items[i])]]

\* typeof v === "object" && v !== null
typeofObject(v) == v.t \in {"object", "array"}

\* Object.keys(v)
ObjectKeys(v) == [i \in 1..Len(v.kv) |-> v.kv[i].k]

\* The keys of the model in the order Array.prototype.sort() gives strings
\* (by UTF-16 code unit).
KeyOrder ==
  <<"$dtId", "$metadata", "$model", "$relationshipId", "$sourceId", "$targetId",
    "0", "1", "a", "b", "constructor", "humidity", "name", "rel", "temp", "twin">>

KeyRank(k) == CHOOSE i \in 1..Len(KeyOrder) : KeyOrder[i] = k

RECURSIVE InsertKey(_, _)
InsertKey(k, ks) ==
  IF ks = <<>> THEN <<k>>
  ELSE IF KeyRank(k) <= KeyRank(Head(ks)) THEN <<k>> \o ks
  ELSE <<Head(ks)>> \o InsertKey(k, Tail(ks))

KeepOrder(ks) == ks

\* Array.prototype.sort() on an array of keys.
RECURSIVE SortKeys(_)
SortKeys(ks) == IF ks = <<>> THEN <<>> ELSE InsertKey(Head(ks), SortKeys(Tail(ks)))

\* obj[key]: the own member, else what a plain object inherits from
\* Object.prototype, else undefined.
Get(obj, key) ==
  IF \E i \in 1..Len(obj.kv) : obj.kv[i].k = key
  THEN obj.kv[CHOOSE i \in 1..Len(obj.kv) : obj.kv[i].k = key].v
  ELSE IF key = "constructor" THEN ObjectConstructor
  ELSE Undefined

DigitChars == <<"0", "1", "2", "3", "4", "5", "6", "7", "8", "9">>

\* Number.prototype.toString for a non-negative integer.
RECURSIVE NumberToString(_)
NumberToString(n) ==
  IF n < 10 THEN <<DigitChars[n + 1]>>
  ELSE NumberToString(n \div 10) \o <<DigitChars[(n % 10) + 1]>>

\* String(value)
RECURSIVE String(_)
RECURSIVE JoinItems(_)
JoinItems(kv) ==
  IF kv = <<>> THEN <<>>
  ELSE (IF Head(kv).v.t \in {"null", "undefined"} THEN <<>> ELSE String(Head(kv).v))
       \o (IF Len(kv) > 1 THEN <<",">> \o JoinItems(Tail(kv)) ELSE <<>>)

String(v) ==
  CASE v.t = "number" -> NumberToString(v.n)
    [] v.t = "string" -> <<v.s>>
    [] v.t = "boolean" -> IF v.n = 1 THEN <<"true">> ELSE <<"false">>
    [] v.t = "null" -> <<"null">>
    [] v.t = "undefined" -> <<"undefined">>
    [] v.t = "function" -> <<"function Object() { [native code] }">>
    [] v.t = "object" -> <<"[object Object]">>
    [] v.t = "array" -> JoinItems(v.kv)

\* JSON.stringify(value)
RECURSIVE JSONstringify(_)
RECURSIVE StringifyMembers(_, _)
StringifyMembers(kv, isArray) ==
  IF kv = <<>> THEN <<>>
  ELSE (IF isArray THEN <<>> ELSE <<"\"", Head(kv).k, "\"", ":">>)
       \o JSONstringify(Head(kv).v)
       \o (IF Len(kv) > 1 THEN <<",">> \o StringifyMembers(Tail(kv), isArray) ELSE <<>>)

JSONstringify(v) ==
  CASE v.t = "number" -> NumberToString(v.n)
    [] v.t = "string" -> <<"\"", v.s, "\"">>
    [] v.t = "boolean" -> IF v.n = 1 THEN <<"true">> ELSE <<"false">>
    [] v.t = "null" -> <<"null">>
    [] v.t = "object" -> <<"{">> \o StringifyMembers(v.kv, FALSE) \o <<"}">>
    [] v.t = "array" -> <<"[">> \o StringifyMembers(v.kv, TRUE) \o <<"]">>

(***************************************************************************)
(* The result rows handed to the table views.                              *)
(***************************************************************************)
Meta == Obj(<<P("$model", Str("Room"))>>)

TwinA ==
  Obj(<<P("$dtId", Str("t1")), P("$metadata", Meta),
        P("name", Str("A")), P("temp", Num(21))>>)

\* The same twin, its members in another order.
TwinAr ==
  Obj(<<P("temp", Num(21)), P("name", Str("A")),
        P("$metadata", Meta), P("$dtId", Str("t1"))>>)

TwinB ==
  Obj(<<P("$dtId", Str("t2")), P("$metadata", Meta),
        P("name", Str("B")), P("humidity", Num(40))>>)

TwinC ==
  Obj(<<P("$dtId", Str("t3")), P("$metadata", Meta), P("constructor", Str("x"))>>)

RelR ==
  Obj(<<P("$relationshipId", Str("r1")), P("$sourceId", Str("t1")),
        P("$targetId", Str("t2")), P("name", Str("contains"))>>)

RowValues ==
  { Obj(<<P("twin", TwinA)>>),
    Obj(<<P("twin", TwinAr)>>),
    Obj(<<P("twin", TwinB)>>),
    Obj(<<P("twin", TwinC)>>),
    Obj(<<P("rel", RelR), P("twin", TwinB)>>),
    Obj(<<P("b", Arr(<<Num(1), Null>>)), P("a", Obj(<<P("name", Str("A"))>>))>>),
    Num(42), Num(17), Num(99) }

\* results = [42, 17, 99]
ScalarScenario == <<Num(42), Num(17), Num(99)>>

ResultInputs == UNION { [1..n -> RowValues] : n \in 0..MaxRows } \cup {ScalarScenario}

(***************************************************************************)
(* dataStructureDetector: getEntityColumns and getEntityProperties, taken  *)
(* from their contracts.                                                   *)
(***************************************************************************)
isTwin(v) ==
  /\ typeofObject(v)
  /\ "$dtId" \in Range(ObjectKeys(v))
  /\ "$metadata" \in Range(ObjectKeys(v))

isRelationship(v) ==
  /\ typeofObject(v)
  /\ {"$relationshipId", "$sourceId", "$targetId"} \subseteq Range(ObjectKeys(v))

\* The keys of the object rows, row after row.
RECURSIVE AllRowKeys(_)
AllRowKeys(rows) ==
  IF rows = <<>> THEN <<>>
  ELSE (IF typeofObject(Head(rows)) THEN ObjectKeys(Head(rows)) ELSE <<>>)
       \o AllRowKeys(Tail(rows))

\* The top-level row keys, in first-seen order, whose value is a twin or a
\* relationship in at least one row.
getEntityColumns(rows) ==
  SelectSeq(AddDistinct(<<>>, AllRowKeys(rows)),
            LAMBDA k : \E i \in 1..Len(rows) :
               /\ typeofObject(rows[i])
               /\ k \in Range(ObjectKeys(rows[i]))
               /\ (isTwin(Get(rows[i], k)) \/ isRelationship(Get(rows[i], k))))

\* The fields getEntityProperties leaves out: the metadata, and (the
\* contract leaves it open whether the views get them) the identity fields.
HiddenFields ==
  IF identityListed THEN {"$metadata"}
  ELSE {"$metadata", "$dtId", "$relationshipId", "$sourceId", "$targetId"}

\* The [key, value] pairs of an entity in the object's key order; none for
\* a value that is not an object.
getEntityProperties(entity) ==
  IF ~typeofObject(entity) THEN <<>>
  ELSE SelectSeq(entity.kv, LAMBDA p : p.k \notin HiddenFields)

(***************************************************************************)
(* FlatColumnsView.                                                        *)
(***************************************************************************)
\* for (const row of results) ... map[col].add(key): the keys added to
\* map[col], in the order of the calls.
RECURSIVE AddedKeys(_, _)
AddedKeys(rows, col) ==
  IF rows = <<>> THEN <<>>
  ELSE (IF typeofObject(Head(rows))
        THEN ObjectKeys([kv |-> getEntityProperties(Get(Head(rows), col))])
        ELSE <<>>)
       \o AddedKeys(Tail(rows), col)

FirstRowEntityProperties(rows, entityColumns) ==
  [col \in Range(entityColumns) |->
     SortKeys(AddDistinct(<<>>, AddedKeys(SubSeq(rows, 1, 1), col)))]

getAllEntityPropertiesByColumn(rows, entityColumns) ==
  [col \in Range(entityColumns) |-> SortKeys(AddDistinct(<<>>, AddedKeys(rows, col)))]

\* getEntityProperties(entity).reduce(acc[k] = v, {}), then entityProps[key].
entityProp(entity, key) == Get(Obj(getEntityProperties(entity)), key)

\* The content of a property cell.  The placeholder is a dash.
PropertyCell(col, propKey, propValue) ==
  IF propKey = "$dtId"
  THEN [col |-> col, kind |-> "code",
        text |-> IF propValue # Undefined THEN String(propValue) ELSE <<>>]
  ELSE IF propValue.t = "boolean"
  THEN [col |-> col, kind |-> "badge",
        text |-> IF propValue.n = 1 THEN <<"true">> ELSE <<"false">>]
  ELSE IF propValue.t = "number"
  THEN [col |-> col, kind |-> "number", text |-> NumberToString(propValue.n)]
  ELSE IF propValue # Undefined
  THEN [col |-> col, kind |-> "text", text |-> String(propValue)]
  ELSE [col |-> col, kind |-> "placeholder", text |-> <<"-">>]

\* entityColumns.flatMap(entityKey => allProps[entityKey].map(...)): the
\* [entityKey, propKey] pairs the inner map is called with, in order.
RECURSIVE FlatMapColumns(_, _)
FlatMapColumns(entityColumns, allProps) ==
  IF entityColumns = <<>> THEN <<>>
  ELSE LET entityKey == Head(entityColumns)
           props == allProps[entityKey]
       IN [i \in 1..Len(props) |-> <<entityKey, props[i]>>]
          \o FlatMapColumns(Tail(entityColumns), allProps)

\* results.map((row, rowIdx) => ...): a row that is not an object renders
\* null; the indexes (from 1) of the rows that render a table row.
RECURSIVE RenderedRows(_, _)
RenderedRows(rows, rowIdx) ==
  IF rows = <<>> THEN <<>>
  ELSE (IF typeofObject(Head(rows)) THEN <<rowIdx>> ELSE <<>>)
       \o RenderedRows(Tail(rows), rowIdx + 1)

FlatColumnsView(rows) ==
  LET entityColumns == getEntityColumns(rows)
      allEntityProps == getAllEntityPropertiesByColumn(rows, entityColumns)
      columns == FlatMapColumns(entityColumns, allEntityProps)
      rendered == RenderedRows(rows, 1)
      cellsOf(row) ==
        [j \in 1..Len(columns) |->
           PropertyCell(columns[j], columns[j][2],
                        entityProp(Get(row, columns[j][1]), columns[j][2]))]
  IN [done |-> TRUE, expanded |-> {},
      header |-> columns,
      rows |-> [i \in 1..Len(rendered) |->
                  [key |-> rendered[i] - 1, cells |-> cellsOf(rows[rendered[i]])]]]

(***************************************************************************)
(* GroupedColumnsView.                                                     *)
(***************************************************************************)
groupedGetAllEntityPropertiesByColumn(rows, entityColumns) ==
  [col \in Range(entityColumns) |-> SortKeys(AddDistinct(<<>>, AddedKeys(rows, col)))]

\* entityColumns.map(entityKey => isExpanded ? allProps.map(...) : ...):
\* a [entityKey, propKey] pair per property of an expanded column, a
\* [entityKey] for a collapsed one.
RECURSIVE GroupedColumns(_, _, _)
GroupedColumns(entityColumns, allProps, expandedColumns) ==
  IF entityColumns = <<>> THEN <<>>
  ELSE LET entityKey == Head(entityColumns)
           props == allProps[entityKey]
       IN (IF entityKey \in expandedColumns
           THEN [i \in 1..Len(props) |-> <<entityKey, props[i]>>]
           ELSE << <<entityKey>> >>)
          \o GroupedColumns(Tail(entityColumns), allProps, expandedColumns)

\* The cell of a collapsed column: entityProps["$dtId"].
SummaryCell(col, dtId) ==
  [col |-> col, kind |-> "summary",
   text |-> IF dtId # Undefined THEN String(dtId) ELSE <<>>]

GroupedColumnsView(rows, expandedColumns) ==
  LET entityColumns == getEntityColumns(rows)
      allEntityProps == groupedGetAllEntityPropertiesByColumn(rows, entityColumns)
      columns == GroupedColumns(entityColumns, allEntityProps, expandedColumns)
      rendered == RenderedRows(rows, 1)
      cellsOf(row) ==
        [j \in 1..Len(columns) |->
           IF Len(columns[j]) = 2
           THEN PropertyCell(columns[j], columns[j][2],
                             entityProp(Get(row, columns[j][1]), columns[j][2]))
           ELSE SummaryCell(columns[j], entityProp(Get(row, columns[j][1]), "$dtId"))]
  IN [done |-> TRUE, expanded |-> expandedColumns,
      header |-> columns,
      rows |-> [i \in 1..Len(rendered) |->
                  [key |-> rendered[i] - 1, cells |-> cellsOf(rows[rendered[i]])]]]

(***************************************************************************)
(* SimpleTableView.                                                        *)
(***************************************************************************)
getAllColumnKeys(rows) == SortKeys(AddDistinct(<<>>, AllRowKeys(rows)))

SimpleCellTextPlain(value) ==
  IF value = Undefined THEN <<>> ELSE String(value)

\* The text of a cell of the simple table.
SimpleCellText(value) ==
  IF typeofObject(value) THEN JSONstringify(value)
  ELSE IF value = Undefined THEN <<>>
  ELSE String(value)

SimpleTableView(rows) ==
  LET columnKeys == getAllColumnKeys(rows)
      cellsOf(row) ==
        [j \in 1..Len(columnKeys) |->
           LET value == IF typeofObject(row) THEN Get(row, columnKeys[j]) ELSE Undefined
           IN [col |-> <<columnKeys[j]>>, kind |-> "mono", text |-> SimpleCellText(value)]]
  IN [done |-> TRUE, expanded |-> {},
      header |-> [j \in 1..Len(columnKeys) |-> <<columnKeys[j]>>],
      rows |-> [i \in 1..Len(rows) |-> [key |-> i - 1, cells |-> cellsOf(rows[i])]]]

(***************************************************************************)
(* The table views render a result set: every result set of up to MaxRows  *)
(* rows and the scalar scenario, each view any number of times.            *)
(***************************************************************************)
TableInit ==
  /\ ViewerInit
  /\ StoreInit
  /\ ConnInit
  /\ models = <<>>
  /\ DtdlIdle
  /\ results \in ResultInputs
  /\ identityListed \in BOOLEAN
  /\ flat = NotRendered
  /\ flatPrev = NotRendered
  /\ simple = NotRendered
  /\ grouped = NotRendered

RenderFlat ==
  /\ flat' = FlatColumnsView(results)
  /\ flatPrev' = flat
  /\ UNCHANGED <<results, identityListed, simple, grouped>>

RenderSimple ==
  /\ simple' = SimpleTableView(results)
  /\ UNCHANGED <<results, identityListed, flat, flatPrev, grouped>>

RenderGrouped(expandedColumns) ==
  /\ grouped' = GroupedColumnsView(results, expandedColumns)
  /\ UNCHANGED <<results, identityListed, flat, flatPrev, simple>>

TableNext ==
  \/ RenderFlat /\ UNCHANGED <<viewerVars, storeVars, connVars, models, dtdlVars>>
  \/ RenderSimple /\ UNCHANGED <<viewerVars, storeVars, connVars, models, dtdlVars>>
  \/ (\E expandedColumns \in SUBSET Range(getEntityColumns(results)) :
        RenderGrouped(expandedColumns)) /\ UNCHANGED <<viewerVars, storeVars, connVars, models, dtdlVars>>

TableSpec == TableInit /\ [][TableNext]_vars

(***************************************************************************)
(* Properties.                                                             *)
(***************************************************************************)
Nodes == { graph.nodes[i] : i \in 1..Len(graph.nodes) }

Edges == { graph.edges[i] : i \in 1..Len(graph.edges) }

\* C1: in every reachable state, whatever the interleaving of graph builds,
\* auto-fetch merges and expansion merges, each edge of the graph has its
\* source id and its target id among the node ids of the graph.
C1_NoDanglingEdge ==
  \A e \in Edges : hasNode(graph, e.src) /\ hasNode(graph, e.tgt)

\* An expansion has just finished: it added an edge, and it left out a
\* returned relationship whose other endpoint could not be fetched.
C1_Witness ==
  /\ lastDone.lost # {}
  /\ \E e \in Edges : e.by = "expand"
  /\ \E i \in 1..Len(lastDone.rels) :
       /\ ~hasNode(graph, lastDone.rels[i].src) \/ ~hasNode(graph, lastDone.rels[i].tgt)
       /\ ~hasEdge(graph, lastDone.rels[i].id)

\* C2: no node and no edge that an expansion put into the graph comes from
\* an expansion started under an earlier result set.
C2_StaleExpansionDiscarded ==
  /\ \A n \in Nodes : n.by = "expand" => n.gen = resultGen
  /\ \A e \in Edges : e.by = "expand" => e.gen = resultGen

\* C3: no edge that an auto-fetch put into the graph comes from an
\* auto-fetch started under an earlier result set.
C3_StaleAutoFetchDiscarded ==
  \A e \in Edges : e.by = "auto" => e.gen = resultGen

(***************************************************************************)
(* The graph that expansions and auto-fetch converge to, written from the  *)
(* data alone: built twins plus the neighbours of the expanded nodes; an   *)
(* edge for every relationship of the build, plus every fetched            *)
(* relationship between two nodes, the first in backend order standing for *)
(* those with the same source and target.                                  *)
(***************************************************************************)
Neighbours(n) ==
  { t \in TwinIds : \E i \in 1..Len(BackendRels) :
      \/ BackendRels[i].src = n /\ BackendRels[i].tgt = t /\ t # n
      \/ BackendRels[i].tgt = n /\ BackendRels[i].src = t /\ t # n }

ExpectedNodes == Range(twins) \cup UNION { Neighbours(n) : n \in expDone }

BuiltEdges == { e \in Edges : e.by = "build" }

Fetched ==
  { i \in 1..Len(BackendRels) :
      \/ autoDone /\ BackendRels[i].src \in Range(twins) /\ BackendRels[i].tgt \in Range(twins)
      \/ BackendRels[i].src \in expDone
      \/ BackendRels[i].tgt \in expDone }

ExpectedEdgeIds ==
  { e.id : e \in BuiltEdges } \cup
  { BackendRels[i].id : i \in
      { j \in Fetched :
          /\ BackendRels[j].src \in ExpectedNodes
          /\ BackendRels[j].tgt \in ExpectedNodes
          /\ ~\E e \in BuiltEdges :
                e.src = BackendRels[j].src /\ e.tgt = BackendRels[j].tgt
          /\ ~\E h \in Fetched :
                /\ h < j
                /\ BackendRels[h].src = BackendRels[j].src
                /\ BackendRels[h].tgt = BackendRels[j].tgt } }

C6_BuildOneNodePerTwin ==
  mounted =>
    /\ ~crashed
    /\ { n.id : n \in { m \in Nodes : m.by = "build" } } = Range(twins)
    /\ \A t \in Range(twins) : CountNode(graph, t) = 1

\* C7: after a build that ended, the edges it made are exactly the
\* relationships of the batch whose source and target are twins of the
\* batch.
C7_BuildEdgesExact ==
  (mounted /\ ~crashed) =>
    { e.id : e \in BuiltEdges } =
      { builtRels[i].id : i \in
          { j \in 1..Len(builtRels) :
              builtRels[j].src \in Range(twins) /\ builtRels[j].tgt \in Range(twins) } }

\* C8: within one result set a node's relationships are queried at most
\* once: expanding an expanded node again fetches nothing.
C8_SecondExpandNoFetch ==
  \A n \in TwinIds : relQueries[n] <= 1

\* C9: within one result set the auto-fetch query is issued at most once.
C9_AutoFetchAtMostOnce ==
  autoIssued <= 1

\* C10: when an expansion in which a neighbour fetch failed ends, every
\* neighbour whose fetch succeeded is a node and every returned
\* relationship with both endpoints among the nodes is an edge.
C10_PartialFailureContinues ==
  lastDone.lost # {} =>
  /\ lastDone.got \subseteq NodeIds(graph)
  /\ \A i \in 1..Len(lastDone.rels) :
       (hasNode(graph, lastDone.rels[i].src) /\ hasNode(graph, lastDone.rels[i].tgt))
          => hasEdge(graph, lastDone.rels[i].id)

(***************************************************************************)
(* Graph lifecycle, layout and the frame of an expansion.                  *)
(***************************************************************************)
\* C12: while the sorted list of twin ids stays the same the graph is only
\* mutated in place: no step that keeps that list (a re-render, a change
\* of layout type, a merge) takes out of the graph a node or an edge that
\* an expansion or the auto-fetch added.
C12_GraphKeptWhileSameResultSet ==
  [][(mounted /\ ~crashed /\ twinIdsOf(twins') = twinIdsOf(twins)) =>
       /\ \A n \in Nodes : n.by = "expand" => hasNode(graph', n.id)
       /\ \A e \in Edges : e.by \in {"expand", "auto"} => hasEdge(graph', e.id)]_vars

\* C13: a node the user has dragged keeps the position the drag gave it
\* until the user resets the layout or the result set changes: no layout
\* strategy is applied to the graph in between.
C13_ManualPositionsKept ==
  \A n \in userPlaced : \E m \in Nodes : m.id = n /\ m.pos = "manual"

\* A step of handleNodeDoubleClick after its first await: a response to an
\* expansion is consumed.
ExpansionStep == expansions' # expansions /\ events' = events

\* C14: a step of an expansion leaves every node of the graph in place with
\* its attributes (its x / y position among them) and every edge in place.
C14_ExpansionLeavesGraphUntouched ==
  [][ExpansionStep =>
       /\ Len(graph'.nodes) >= Len(graph.nodes)
       /\ \A i \in 1..Len(graph.nodes) : graph'.nodes[i] = graph.nodes[i]
       /\ Len(graph'.edges) >= Len(graph.edges)
       /\ \A i \in 1..Len(graph.edges) : graph'.edges[i] = graph.edges[i]]_vars

\* An expansion has just finished that added a node and an edge to a graph
\* holding a node the user had dragged and an edge of the build.
C14_Witness ==
  /\ lastDone.got # {}
  /\ \E e \in Edges : e.by = "expand"
  /\ \E e \in Edges : e.by = "build"
  /\ \E m \in Nodes : m.by = "build" /\ m.pos = "manual"

\* C15: an expansion that waits for its relationships has started no twin
\* fetch, and every twin an expansion fetches (fetched, failed or in
\* flight) is an endpoint of a relationship of the expanded node.
C15_NeighbourFetchAfterRelationships ==
  /\ \A p \in expansions :
       /\ p.stage = "rels" => (p.queue = <<>> /\ p.got = {} /\ p.lost = {})
       /\ p.stage = "twin" =>
            /\ p.queue # <<>>
            /\ ({Head(p.queue)} \cup p.got \cup p.lost) \subseteq Neighbours(p.node)
  /\ lastDone.node # 0 =>
       (lastDone.got \cup lastDone.lost) \subseteq Neighbours(lastDone.node)

\* An expansion has fetched one neighbour and waits for the next one.
C15_Witness ==
  \E p \in expansions : p.stage = "twin" /\ p.got # {} /\ p.queue # <<>>

(***************************************************************************)
(* Query errors.                                                           *)
(***************************************************************************)
\* C11: once every query error has been reported as a notification, the
\* displayed result set is still that of the last query that succeeded.
C11_ErrorKeepsLastResults ==
  (toasts # <<>> /\ queryError = "null" /\ queryPending = "null")
     => queryResults = lastGood

(***************************************************************************)
(* The table views.                                                        *)
(***************************************************************************)
\* The rows of results that are objects.
ObjectRows == { i \in 1..Len(results) : typeofObject(results[i]) }

\* The property keys row i has under entity column c.
RowPropertyKeys(i, c) ==
  { p.k : p \in Range(getEntityProperties(Get(results[i], c))) }

\* The property keys entity column c has over all rows.
PropertyKeysOf(c) == UNION { RowPropertyKeys(i, c) : i \in ObjectRows }

\* The property columns a rendered table has under entity column c.
ColumnsUnder(table, c) ==
  { h[2] : h \in { x \in Range(table.header) : Len(x) = 2 /\ x[1] = c } }

\* C16: under every entity column the flat table, and the grouped table for
\* an expanded column, has exactly the union of the property keys that
\* column has over all rows, one column per key.
C16_ColumnsAreUnionOfKeys ==
  /\ flat.done =>
       /\ \A c \in Range(getEntityColumns(results)) :
            ColumnsUnder(flat, c) = PropertyKeysOf(c)
       /\ \A h \in Range(flat.header) : h[1] \in Range(getEntityColumns(results))
       /\ Cardinality(Range(flat.header)) = Len(flat.header)
  /\ grouped.done =>
       /\ \A c \in grouped.expanded : ColumnsUnder(grouped, c) = PropertyKeysOf(c)
       /\ \A h \in Range(grouped.header) : h[1] \in Range(getEntityColumns(results))
       /\ Cardinality(Range(grouped.header)) = Len(grouped.header)

\* Both tables are rendered (a column of the grouped one expanded) for rows
\* whose entities differ in their property keys.
C16_Witness ==
  /\ flat.done
  /\ grouped.done
  /\ \E c \in grouped.expanded : \E i, j \in ObjectRows :
       /\ RowPropertyKeys(i, c) \ RowPropertyKeys(j, c) # {}
       /\ RowPropertyKeys(j, c) \ RowPropertyKeys(i, c) # {}

\* C17: every rendered row of the flat table has one cell per header
\* column, in header order, and the cell of a property the row's entity
\* lacks (the entity itself may be missing) is empty: the placeholder, or
\* no text.
C17_FlatRowsHaveEveryCell ==
  flat.done =>
    \A i \in 1..Len(flat.rows) :
      LET cells == flat.rows[i].cells
          r == flat.rows[i].key + 1
      IN /\ Len(cells) = Len(flat.header)
         /\ \A j \in 1..Len(cells) :
              /\ cells[j].col = flat.header[j]
              /\ flat.header[j][2] \notin RowPropertyKeys(r, flat.header[j][1])
                   => (cells[j].kind = "placeholder" \/ cells[j].text = <<>>)

Reverse(seq) == [i \in 1..Len(seq) |-> seq[Len(seq) + 1 - i]]

\* The rows with the members of every entity in the opposite order.
ReverseProps(rows) ==
  [i \in 1..Len(rows) |->
     IF rows[i].t = "object"
     THEN Obj([j \in 1..Len(rows[i].kv) |->
                 LET m == rows[i].kv[j]
                 IN IF m.v.t = "object" THEN P(m.k, Obj(Reverse(m.v.kv))) ELSE m])
     ELSE rows[i]]

\* C18: rendering the flat table again gives the same table; so does
\* rendering it for the rows with their property keys in another order;
\* its columns are grouped contiguously by entity column with the property
\* keys sorted within a group, and its rows are in the order of results.
C18_FlatTableDeterministic ==
  flat.done =>
    /\ flatPrev.done => flatPrev = flat
    /\ FlatColumnsView(ReverseProps(results)) = flat
    /\ \A i, j, k \in 1..Len(flat.header) :
         (i < j /\ j < k /\ flat.header[i][1] = flat.header[k][1])
            => flat.header[j][1] = flat.header[i][1]
    /\ \A i, j \in 1..Len(flat.header) :
         (i < j /\ flat.header[i][1] = flat.header[j][1])
            => KeyRank(flat.header[i][2]) < KeyRank(flat.header[j][2])
    /\ \A i, j \in 1..Len(flat.rows) : i < j => flat.rows[i].key < flat.rows[j].key

\* The flat table was rendered twice for rows with two entity columns, one
\* of them with several properties, whose key order can be changed.
C18_Witness ==
  /\ flat.done
  /\ flatPrev.done
  /\ ReverseProps(results) # results
  /\ Cardinality({ h[1] : h \in Range(flat.header) }) >= 2
  /\ \E c \in Range(getEntityColumns(results)) : Cardinality(ColumnsUnder(flat, c)) >= 2
  /\ Len(flat.rows) >= 2

\* C19: for results that are bare scalars only, the simple table has one
\* column and one row, of one cell, per scalar.
C19_ScalarsOneColumn ==
  (simple.done /\ results # <<>> /\ ObjectRows = {}) =>
    /\ Len(simple.header) = 1
    /\ Len(simple.rows) = Len(results)
    /\ \A i \in 1..Len(simple.rows) : Len(simple.rows[i].cells) = 1

(***************************************************************************)
(* Reading JSON text back: the value a sequence of tokens denotes.         *)
(***************************************************************************)
Rest(ts, n) == SubSeq(ts, n + 1, Len(ts))

At(ts, i) == IF i <= Len(ts) THEN ts[i] ELSE ""

RECURSIVE ParseDigits(_, _)
ParseDigits(ts, acc) ==
  IF ts # <<>> /\ Head(ts) \in Range(DigitChars)
  THEN ParseDigits(Tail(ts),
                   acc * 10 + (CHOOSE d \in 0..9 : DigitChars[d + 1] = Head(ts)))
  ELSE [v |-> Num(acc), rest |-> ts]

RECURSIVE ParseValue(_)
RECURSIVE ParseMembers(_, _)
ParseMembers(ts, kv) ==
  LET r == ParseValue(Rest(ts, 4))
      kv2 == Append(kv, P(At(ts, 2), r.v))
  IN IF At(r.rest, 1) = "," THEN ParseMembers(Rest(r.rest, 1), kv2)
     ELSE [v |-> Obj(kv2), rest |-> Rest(r.rest, 1)]

RECURSIVE ParseItems(_, _)
ParseItems(ts, items) ==
  LET r == ParseValue(ts)
      items2 == Append(items, r.v)
  IN IF At(r.rest, 1) = "," THEN ParseItems(Rest(r.rest, 1), items2)
     ELSE [v |-> Arr(items2), rest |-> Rest(r.rest, 1)]

ParseValue(ts) ==
  LET h == At(ts, 1)
  IN CASE h = "" -> [v |-> Undefined, rest |-> <<>>]
       [] h = "{" -> IF At(ts, 2) = "}" THEN [v |-> Obj(<<>>), rest |-> Rest(ts, 2)]
                     ELSE ParseMembers(Rest(ts, 1), <<>>)
       [] h = "[" -> IF At(ts, 2) = "]" THEN [v |-> Arr(<<>>), rest |-> Rest(ts, 2)]
                     ELSE ParseItems(Rest(ts, 1), <<>>)
       [] h = "\"" -> [v |-> Str(At(ts, 2)), rest |-> Rest(ts, 3)]
       [] h = "null" -> [v |-> Null, rest |-> Rest(ts, 1)]
       [] h = "true" -> [v |-> Bool(TRUE), rest |-> Rest(ts, 1)]
       [] h = "false" -> [v |-> Bool(FALSE), rest |-> Rest(ts, 1)]
       [] h \in Range(DigitChars) -> ParseDigits(ts, 0)
       [] OTHER -> [v |-> Undefined, rest |-> ts]

\* The text is the JSON text of value v.
IsJsonTextOf(text, v) ==
  LET r == ParseValue(text) IN r.rest = <<>> /\ r.v = v

\* C20: the simple table has one column per distinct key of the object
\* rows, in sorted order, and the cell of a nested value (an object or an
\* array) holds the JSON text of that value.
C20_SimpleColumnsAndJson ==
  simple.done =>
    /\ { h[1] : h \in Range(simple.header) } =
         UNION { Range(ObjectKeys(results[i])) : i \in ObjectRows }
    /\ \A i, j \in 1..Len(simple.header) :
         i < j => KeyRank(simple.header[i][1]) < KeyRank(simple.header[j][1])
    /\ \A i \in ObjectRows : \A m \in Range(results[i].kv) :
         typeofObject(m.v) =>
           \E j \in 1..Len(simple.header) :
              /\ simple.header[j][1] = m.k
              /\ IsJsonTextOf(simple.rows[i].cells[j].text, m.v)

\* The simple table was rendered for rows with different keys that hold an
\* object and an array.
C20_Witness ==
  /\ simple.done
  /\ Len(simple.header) >= 3
  /\ \E i \in ObjectRows : \E m \in Range(results[i].kv) : m.v.t = "array"
  /\ \E i \in ObjectRows : \E m \in Range(results[i].kv) : isTwin(m.v)

\* The identity key of a twin or a relationship.
identityKey(entity) ==
  IF isTwin(entity) THEN Get(entity, "$dtId") ELSE Get(entity, "$relationshipId")

\* C21: in the grouped table the cell of a collapsed entity column shows the
\* identity key of the row's entity: the twin id of a twin, the relationship
\* id of a relationship.
C21_CollapsedShowsIdentityKey ==
  grouped.done =>
    \A i \in 1..Len(grouped.rows) : \A j \in 1..Len(grouped.header) :
      LET entity == Get(results[grouped.rows[i].key + 1], grouped.header[j][1])
      IN (Len(grouped.header[j]) = 1 /\ (isTwin(entity) \/ isRelationship(entity))) =>
           grouped.rows[i].cells[j].text = String(identityKey(entity))

(***************************************************************************)
(* The connection store.                                                   *)
(***************************************************************************)
\* C22: when the user signs out, every KtrlPlane-managed connection leaves
\* the connection list and the local connections stay exactly as they were.
C22_SignOutRemovesManagedOnly ==
  [][(isAuthenticated /\ ~isAuthenticated') =>
       (ktrlPlaneConnections' = <<>> /\ connections' = connections)]_vars

\* A sign-out that found managed connections and left local ones behind.
C22_Witness ==
  /\ lastOp.op = "handleLogout"
  /\ lastOp.found
  /\ connections # <<>>
  /\ ktrlPlaneConnections = <<>>

\* The steps of the connection form and of the Delete item.
SelectorEdits ==
  {"handleEdit", "openDialog", "handleDialogOpenChange", "rejected",
   "addConnection", "updateConnection", "removeConnection"}

\* C23: no edit, save or delete in the connection selector changes or
\* removes an entry of the KtrlPlane-managed list.
C23_ManagedConnectionsReadOnly ==
  [][lastOp'.op \in SelectorEdits => ktrlPlaneConnections' = ktrlPlaneConnections]_vars

\* A local connection with the id of a managed one was deleted, and the
\* managed one is still listed.
C23_Witness ==
  /\ lastOp.op = "removeConnection"
  /\ exists(ktrlPlaneConnections, lastOp.id)
  /\ ~exists(connections, lastOp.id)

\* C24: currentConnectionId is null or the id of a connection of the local
\* or of the KtrlPlane-managed list.
C24_CurrentConnectionExists ==
  currentConnectionId = NoConnection
    \/ exists(getAllConnections(State), currentConnectionId)

\* C25: every change of the current connection clears the query results,
\* the models and the inspector selection, whichever operation causes it;
\* a setCurrentConnection with an id that matches no connection changes
\* nothing.
C25_ConnectionChangeClearsData ==
  [][/\ (currentConnectionId' # currentConnectionId) =>
          (queryResults' = NoResults /\ models' = <<>> /\ selection' = FALSE)
     /\ (lastOp'.op = "setCurrentConnection" /\ ~lastOp'.found) =>
          UNCHANGED <<connections, ktrlPlaneConnections, currentConnectionId,
                      queryResults, queryError, models, selection>>]_vars

\* C28: no two local connections share an id.
C28_ConnectionIdsUnique ==
  \A i \in 1..Len(connections) : \A j \in 1..Len(connections) :
    connections[i].id = connections[j].id => i = j

(***************************************************************************)
(* The relationship auto-fetch and the retry of a failed expansion.        *)
(***************************************************************************)
\* The viewer shows a result set with at least one twin that came without
\* relationships.
NeedsAutoFetch ==
  /\ mounted
  /\ ~crashed
  /\ autoFetchRelationships
  /\ Len(twins) > 0
  /\ relationships = <<>>
  /\ builtRels = <<>>

\* C26: for every result set with at least one twin and no relationships
\* (auto-fetch enabled, a connection available) the relationship auto-fetch
\* is eventually issued for that result set.
C26_AutoFetchEventuallyIssued ==
  NeedsAutoFetch ~> (autoIssued >= 1)

\* C27: when the relationship query of an expansion fails, the node is not
\* left marked as expanded.
C27_FailedExpansionNotMarked ==
  [][\A p \in expansions :
       (p.stage = "rels" /\ expansions' = expansions \ {p} /\ lastDone' = NoDone) =>
         p.node \notin expandedNodes']_vars

\* C29: the flat and the grouped table render exactly one row for every
\* element of results, in the order of results.
C29_OneRowPerResult ==
  /\ flat.done =>
       /\ Len(flat.rows) = Len(results)
       /\ \A i \in 1..Len(flat.rows) : flat.rows[i].key = i - 1
  /\ grouped.done =>
       /\ Len(grouped.rows) = Len(results)
       /\ \A i \in 1..Len(grouped.rows) : grouped.rows[i].key = i - 1

(***************************************************************************)
(* Relationship definitions of a model.                                    *)
(***************************************************************************)
\* The relationship contents of the model itself, first of each name.
OwnRelationships ==
  IF isLoaded(models, modelId) /\ findModel(models, modelId).hasModel
  THEN processContents(findModel(models, modelId).contents,
                       [defs |-> <<>>, names |-> {}]).defs
  ELSE <<>>

\* C30: getModelRelationshipDefinitions ends by returning for every set of
\* loaded models, also with a cycle of extends; the array it returns has
\* each relationship name once, and the definition of the model itself
\* stands for a name that a base model defines too.
C30_RelationshipDefinitionsTerminate ==
  /\ ~threw
  /\ returned =>
       /\ \A i \in 1..Len(relationshipDefs) : \A j \in 1..Len(relationshipDefs) :
            relationshipDefs[i].name = relationshipDefs[j].name => i = j
       /\ \A i \in 1..Len(OwnRelationships) :
            OwnRelationships[i] \in Range(relationshipDefs)

====
